---------------------------- MODULE Spec2Model ----------------------------
(***************************************************************************)
(* Model of the terrain generator (src/src/main.rs).                       *)
(*                                                                         *)
(* TerrainApp holds a TerrainConfig, a seed, the terrain image and an      *)
(* optional texture handle.  regenerate_terrain computes, for every pixel, *)
(* a sum of noise octaves, normalises it, classifies it into a colour band *)
(* (get_terrain_color) and quantises the colour (quantize_color).          *)
(*                                                                         *)
(* f64 values are IEEE 754 binary64 numbers <<sign, exponent, mantissa>>   *)
(* of value (-1)^sign * mantissa * 2^exponent, the mantissa below 2^53 and *)
(* held in four base-2^14 digits.  Every operation rounds to nearest, ties *)
(* to even, and underflows through the subnormals to zero, as the          *)
(* hardware does.  The sign of zero is dropped: the program compares and   *)
(* adds its f64 values and never tells -0.0 from 0.0.  Values of 2^1024    *)
(* and above (infinities) and NaN do not arise from the inputs of the      *)
(* model and are not represented.                                          *)
(*                                                                         *)
(* The noise crate's Perlin is outside the repository.  PerlinGet is a     *)
(* stand-in with the contract the program relies on: a deterministic       *)
(* function of the seed and the sample point with values in [-1, 1].       *)
(***************************************************************************)
EXTENDS Integers, Sequences, FiniteSets

VARIABLES
    fonts,           \* the font definitions of the egui context
    seed,            \* TerrainApp.seed
    config,          \* TerrainApp.config
    terrain,         \* TerrainApp.terrain
    texture_handle,  \* TerrainApp.texture_handle: None or Some(handle)
    pc,              \* where the program is
    ui,              \* what the widgets reported in the last frame
    saved,           \* the first run remembered: None or Some(its seed, config
                     \* and terrain)
    call             \* a direct call of get_terrain_color or quantize_color

vars == <<fonts, seed, config, terrain, texture_handle, pc, ui, saved, call>>

---------------------------------------------------------------------------
(* Bounds of the model *)

\* Seeds are 0 .. MaxSeed (the program draws any u32).
MaxSeed == 1
\* Image sides are 0 .. MaxDim,
MaxDim == 2
\* the application's 512 x 512 grid is scaled down to GridSide x GridSide
GridSide == 1
\* and its 256 x 256 placeholder to PlaceholderSide x PlaceholderSide.
PlaceholderSide == 2
\* Octave loops have up to MaxOctaves iterations (the slider allows 8).
MaxOctaves == 4

(* Program constants *)
DefaultOctaves == 6
MaxPixelSize == 16

---------------------------------------------------------------------------
(* Option *)

None == <<>>
Some(x) == <<x>>

---------------------------------------------------------------------------
(* f64 *)

Abs(n) == IF n < 0 THEN -n ELSE n
Max(a, b) == IF a > b THEN a ELSE b
Min(a, b) == IF a < b THEN a ELSE b

\* Mantissas and the intermediate results are numbers in digits of base
\* 2^14, least significant first.
Base == 16384
PowersOfTwo ==
    <<1, 2, 4, 8, 16, 32, 64, 128, 256, 512, 1024, 2048, 4096, 8192, 16384>>
P2(k) == PowersOfTwo[k + 1]

\* Digit i of N, zero outside N.
Limb(N, i) == IF i >= 1 /\ i <= Len(N) THEN N[i] ELSE 0

\* The number of bits of a digit.
LimbLen(v) ==
    IF v < 128
    THEN IF v < 8 THEN (IF v < 2 THEN v ELSE IF v < 4 THEN 2 ELSE 3)
         ELSE IF v < 32 THEN (IF v < 16 THEN 4 ELSE 5)
         ELSE IF v < 64 THEN 6 ELSE 7
    ELSE IF v < 2048 THEN (IF v < 512 THEN (IF v < 256 THEN 8 ELSE 9)
                           ELSE IF v < 1024 THEN 10 ELSE 11)
         ELSE IF v < 8192 THEN (IF v < 4096 THEN 12 ELSE 13) ELSE 14

\* The number of bits of N, looking from digit i down.
RECURSIVE BitsFrom(_, _)
BitsFrom(N, i) ==
    IF i = 0 THEN 0
    ELSE IF N[i] # 0 THEN 14 * (i - 1) + LimbLen(N[i])
    ELSE BitsFrom(N, i - 1)
BitLength(N) == BitsFrom(N, Len(N))

\* Digit i of N \div 2^(14 q + r), and the four or five lowest digits of it.
DigitRight(N, q, r, i) ==
    (Limb(N, i + q) \div P2(r)) + (Limb(N, i + q + 1) % P2(r)) * P2(14 - r)
Right4(N, q, r) ==
    <<DigitRight(N, q, r, 1), DigitRight(N, q, r, 2), DigitRight(N, q, r, 3),
      DigitRight(N, q, r, 4)>>
Right5(N, q, r) == Right4(N, q, r) \o <<DigitRight(N, q, r, 5)>>
ShiftRight4(N, sh) == Right4(N, sh \div 14, sh % 14)
ShiftRight5(N, sh) == Right5(N, sh \div 14, sh % 14)

\* Digit i of N * 2^(14 q + r), and the four or five lowest digits of it.
DigitLeft(N, q, r, i) ==
    (Limb(N, i - q) % P2(14 - r)) * P2(r) + (Limb(N, i - q - 1) \div P2(14 - r))
Left4(N, q, r) ==
    <<DigitLeft(N, q, r, 1), DigitLeft(N, q, r, 2), DigitLeft(N, q, r, 3),
      DigitLeft(N, q, r, 4)>>
Left5(N, q, r) == Left4(N, q, r) \o <<DigitLeft(N, q, r, 5)>>
ShiftLeft4(N, sh) == Left4(N, sh \div 14, sh % 14)
ShiftLeft5(N, sh) == Left5(N, sh \div 14, sh % 14)

\* Bit k of N, and whether the bits below bit k are all zero.
Bit(N, k) == (Limb(N, (k \div 14) + 1) \div P2(k % 14)) % 2
LowZero(N, k) ==
    /\ \A i \in 1 .. Min(k \div 14, Len(N)) : N[i] = 0
    /\ Limb(N, (k \div 14) + 1) % P2(k % 14) = 0

\* A + B in five digits, for numbers below 2^69.
Add5(A, B) ==
    LET s1 == A[1] + B[1]
        s2 == A[2] + B[2] + (s1 \div Base)
        s3 == A[3] + B[3] + (s2 \div Base)
        s4 == A[4] + B[4] + (s3 \div Base)
        s5 == A[5] + B[5] + (s4 \div Base)
    IN  <<s1 % Base, s2 % Base, s3 % Base, s4 % Base, s5>>

\* A - B in five digits, for A >= B.
Sub5(A, B) ==
    LET d1 == A[1] - B[1]
        d2 == A[2] - B[2] - (IF d1 < 0 THEN 1 ELSE 0)
        d3 == A[3] - B[3] - (IF d2 < 0 THEN 1 ELSE 0)
        d4 == A[4] - B[4] - (IF d3 < 0 THEN 1 ELSE 0)
        d5 == A[5] - B[5] - (IF d4 < 0 THEN 1 ELSE 0)
    IN  <<d1 % Base, d2 % Base, d3 % Base, d4 % Base, d5>>

\* M + 1 for a mantissa M.
Increment(M) ==
    LET s1 == M[1] + 1
        s2 == M[2] + (s1 \div Base)
        s3 == M[3] + (s2 \div Base)
    IN  <<s1 % Base, s2 % Base, s3 % Base, M[4] + (s3 \div Base)>>

\* A < B, comparing from digit i down.
RECURSIVE LessFrom(_, _, _)
LessFrom(A, B, i) ==
    IF i = 0 THEN FALSE
    ELSE IF A[i] # B[i] THEN A[i] < B[i]
    ELSE LessFrom(A, B, i - 1)
LessLimbs(A, B) == LessFrom(A, B, Len(A))

\* The product of two mantissas, in eight digits.
MulLimbs(A, B) ==
    LET c1 == A[1] * B[1]
        c2 == A[1] * B[2] + A[2] * B[1] + (c1 \div Base)
        c3 == A[1] * B[3] + A[2] * B[2] + A[3] * B[1] + (c2 \div Base)
        c4 == A[1] * B[4] + A[2] * B[3] + A[3] * B[2] + A[4] * B[1]
              + (c3 \div Base)
        c5 == A[2] * B[4] + A[3] * B[3] + A[4] * B[2] + (c4 \div Base)
        c6 == A[3] * B[4] + A[4] * B[3] + (c5 \div Base)
        c7 == A[4] * B[4] + (c6 \div Base)
    IN  <<c1 % Base, c2 % Base, c3 % Base, c4 % Base, c5 % Base, c6 % Base,
          c7 % Base, c7 \div Base>>

\* N \div n and whether N % n is not zero, for five digits N and a digit n.
DivLimbs(N, n) ==
    LET c5 == N[5]
        c4 == (c5 % n) * Base + N[4]
        c3 == (c4 % n) * Base + N[3]
        c2 == (c3 % n) * Base + N[2]
        c1 == (c2 % n) * Base + N[1]
    IN  [q |-> <<c1 \div n, c2 \div n, c3 \div n, c4 \div n, c5 \div n>>,
         inexact |-> c1 % n # 0]

NoLimbs == <<0, 0, 0, 0>>
TwoTo52 == <<0, 0, 0, 1024>>
TwoTo53 == <<0, 0, 0, 2048>>

Zero == <<0, 0, NoLimbs>>
IsZero(a) == a[3] = NoLimbs

\* 2^k as an f64, for -1022 <= k.
PowerOfTwo(k) == <<0, k - 52, TwoTo52>>

\* A rounded mantissa M that has reached 2^53 is 2^52 with the next exponent.
Finish(s, M, e) ==
    IF M = NoLimbs THEN Zero
    ELSE IF LessLimbs(M, TwoTo53) THEN <<s, e, M>>
    ELSE <<s, e + 1, ShiftRight4(M, 1)>>

\* The f64 nearest to (-1)^s * (N + f) * 2^e, ties to even, where 0 <= f < 1
\* and sticky says f > 0.  Exponents stop at -1074: below 2^-1022 the
\* mantissa has fewer than 53 bits (subnormals), and what rounds below
\* 2^-1075 is zero.
RoundBits(s, N, e, sticky, L, sh) ==
    IF L = 0 THEN Zero
    ELSE IF sh <= 0
    THEN <<s, e - Min(53 - L, e + 1074), ShiftLeft4(N, Min(53 - L, e + 1074))>>
    ELSE LET Q == ShiftRight4(N, sh)
             half == Bit(N, sh - 1) = 1
             up == half /\ (sticky \/ Q[1] % 2 = 1 \/ ~LowZero(N, sh - 1))
         IN  Finish(s, IF up THEN Increment(Q) ELSE Q, e + sh)
RoundLength(s, N, e, sticky, L) ==
    RoundBits(s, N, e, sticky, L, Max(L - 53, (-1074) - e))
Round(s, N, e, sticky) == RoundLength(s, N, e, sticky, BitLength(N))

Neg(a) == IF IsZero(a) THEN a ELSE <<1 - a[1], a[2], a[3]>>

\* a * b
FMul(a, b) ==
    IF IsZero(a) \/ IsZero(b) THEN Zero
    ELSE Round((a[1] + b[1]) % 2, MulLimbs(a[3], b[3]), a[2] + b[2], FALSE)

\* N \div 2^sh in five digits, the lowest bit set when bits were lost.
Jammed(Q, exact) == IF exact THEN Q ELSE <<Q[1] + 1 - (Q[1] % 2)>> \o Tail(Q)
ShiftRightJam(N, sh) == Jammed(ShiftRight5(N, sh), LowZero(N, sh))

\* The sum of (-1)^sa * A and (-1)^sb * B, both in units of 2^e, rounded.
Combine(sa, A, sb, B, e) ==
    IF sa = sb THEN Round(sa, Add5(A, B), e, FALSE)
    ELSE IF LessLimbs(A, B) THEN Round(sb, Sub5(B, A), e, FALSE)
    ELSE Round(sa, Sub5(A, B), e, FALSE)

\* a + b for a[2] >= b[2], neither zero: both mantissas get three further
\* bits, and the bits b loses when it is aligned with a are kept as one.
AddOrdered(a, b) ==
    Combine(a[1], ShiftLeft5(a[3], 3), b[1],
            ShiftRightJam(ShiftLeft5(b[3], 3), a[2] - b[2]), a[2] - 3)

\* a + b
FAdd(a, b) ==
    IF IsZero(a) THEN b
    ELSE IF IsZero(b) THEN a
    ELSE IF a[2] >= b[2] THEN AddOrdered(a, b) ELSE AddOrdered(b, a)

\* a - b
FSub(a, b) == FAdd(a, Neg(b))

\* n as f64, for 0 <= n < 2^14.
FromInt(n) == Round(0, <<n>>, 0, FALSE)

\* The integer that an integer-valued f64 b, 0 < b < 2^14, holds.
IntOf(b) == ShiftRight4(b[3], -b[2])[1]

\* a / b for b an integer, 0 < b < 2^14: the program divides by width, by
\* height and by 2.0.
Quotient(s, d, e) == Round(s, d.q, e, d.inexact)
FDiv(a, b) ==
    IF IsZero(a) THEN Zero
    ELSE Quotient(a[1], DivLimbs(ShiftLeft5(a[3], 17), IntOf(b)), a[2] - 17)

\* a < b
LessMagnitude(a, b) == a[2] < b[2] \/ (a[2] = b[2] /\ LessLimbs(a[3], b[3]))
FLt(a, b) ==
    IF IsZero(a) THEN ~IsZero(b) /\ b[1] = 0
    ELSE IF IsZero(b) THEN a[1] = 1
    ELSE IF a[1] # b[1] THEN a[1] = 1
    ELSE IF a[1] = 0 THEN LessMagnitude(a, b)
    ELSE LessMagnitude(b, a)

\* The f64 nearest to n / d: what the literal written n / d denotes.
Lit(n, d) ==
    IF n < 0 THEN Neg(FDiv(FromInt(-n), FromInt(d))) ELSE FDiv(FromInt(n), FromInt(d))

Half == Lit(1, 2)
One == Lit(1, 1)
Two == Lit(2, 1)

---------------------------------------------------------------------------
(* Input domains *)

Seeds == 0 .. MaxSeed
Dims == 0 .. MaxDim
\* Sampled values of the fields: scale 30 and 50,
Scales == {Lit(30, 1), Lit(50, 1)}
\* one octave and MaxOctaves octaves (a shorter loop is the beginning of a
\* longer one),
OctaveChoices == {1, MaxOctaves}
\* persistence 0, 2^-600 (whose square underflows), 0.8 and 1,
Persistences == {Zero, PowerOfTwo(-600), Lit(8, 10), One}
\* lacunarity 2 and 2.7.
Lacunarities == {Two, Lit(27, 10)}
PixelSizes == {1, 2}

\* The config literal of TerrainApp::new.
DefaultConfig ==
    [width |-> GridSide, height |-> GridSide, scale |-> Lit(50, 1),
     octaves |-> DefaultOctaves, persistence |-> Lit(5, 10),
     lacunarity |-> Lit(2, 1), pixel_size |-> 1]

Configs ==
    [width : Dims, height : Dims, scale : Scales, octaves : OctaveChoices,
     persistence : Persistences, lacunarity : Lacunarities,
     pixel_size : PixelSizes]

---------------------------------------------------------------------------
(* Colours *)

\* Color32::from_rgb: opaque.
from_rgb(r, g, b) == <<r, g, b, 255>>

BLACK == from_rgb(0, 0, 0)

\* Color32::from_rgba_unmultiplied: opaque colours are kept, fully
\* transparent ones become TRANSPARENT, the others are premultiplied.
from_rgba_unmultiplied(r, g, b, a) ==
    IF a = 255 THEN from_rgb(r, g, b)
    ELSE IF a = 0 THEN <<0, 0, 0, 0>>
    ELSE <<(r * a) \div 255, (g * a) \div 255, (b * a) \div 255, a>>

\* Variant of quantize: pixel_size taken for the step instead of the number
\* of levels.
quantize_step_is_pixel_size(v, pixel_size) ==
    LET r == ((2 * v + pixel_size) \div (2 * pixel_size)) * pixel_size
    IN  IF r > 255 THEN 255 ELSE r

\* The closure `quantize` of quantize_color, for pixel_size > 0:
\*   step = 255 / pixel_size                       (u32 division)
\*   ((v as f32 / step as f32).round() * step as f32) as u8
\* round() rounds half away from zero; `as u8` saturates and maps NaN
\* (step = 0: v / 0.0 is inf or NaN, times 0.0 is NaN) to 0.
quantize(v, pixel_size) ==
    LET step == 255 \div pixel_size
    IN  IF step = 0 THEN 0
        ELSE LET r == ((2 * v + step) \div (2 * step)) * step
             IN  IF r > 255 THEN 255 ELSE r

\* quantize_color: 255 / pixel_size panics when pixel_size is 0.
quantize_color(color, pixel_size) ==
    IF pixel_size = 0
    THEN [outcome |-> "panic: attempt to divide by zero", value |-> <<>>]
    ELSE [outcome |-> "ok",
          value |-> from_rgb(quantize(color[1], pixel_size),
                             quantize(color[2], pixel_size),
                             quantize(color[3], pixel_size))]


\* The literals of the match arms of get_terrain_color.
DeepWaterBelow == Lit(3, 10)
WaterBelow == Lit(4, 10)
SandBelow == Lit(5, 10)
GrassBelow == Lit(7, 10)
MountainBelow == Lit(8, 10)

\* Variant of TerrainBand: the first arm written as the range 0.0 .. 0.3, so
\* that a negative height reaches the catch-all arm.
TerrainBandFromZero(height) ==
    IF ~FLt(height, Zero) /\ FLt(height, DeepWaterBelow) THEN 1
    ELSE IF FLt(height, WaterBelow) /\ ~FLt(height, Zero) THEN 2
    ELSE IF FLt(height, SandBelow) /\ ~FLt(height, Zero) THEN 3
    ELSE IF FLt(height, GrassBelow) /\ ~FLt(height, Zero) THEN 4
    ELSE IF FLt(height, MountainBelow) /\ ~FLt(height, Zero) THEN 5
    ELSE 6

\* The arm of the match in get_terrain_color that `height` selects, 1 .. 6.
TerrainBand(height) ==
    IF FLt(height, DeepWaterBelow) THEN 1
    ELSE IF FLt(height, WaterBelow) THEN 2
    ELSE IF FLt(height, SandBelow) THEN 3
    ELSE IF FLt(height, GrassBelow) THEN 4
    ELSE IF FLt(height, MountainBelow) THEN 5
    ELSE 6

\* The colour each arm names.
BandColor(band) ==
    CASE band = 1 -> <<0, 0, 255>>
      [] band = 2 -> <<65, 105, 225>>
      [] band = 3 -> <<210, 180, 140>>
      [] band = 4 -> <<34, 139, 34>>
      [] band = 5 -> <<139, 69, 19>>
      [] OTHER    -> <<255, 255, 255>>

get_terrain_color(height) ==
    quantize_color(BandColor(TerrainBand(height)), 1).value

---------------------------------------------------------------------------
(* Noise *)

\* A number made of the bits of an f64.
Bits(a) ==
    (a[1] + Abs(a[2]) * 7 + a[3][1] * 3 + a[3][2] * 5 + a[3][3] * 11
     + a[3][4] * 13) % 1009

\* The values it takes: -8/8, -7/8, .., 8/8.
Eighths ==
    <<Lit(-8, 8), Lit(-7, 8), Lit(-6, 8), Lit(-5, 8), Lit(-4, 8), Lit(-3, 8),
      Lit(-2, 8), Lit(-1, 8), Lit(0, 8), Lit(1, 8), Lit(2, 8), Lit(3, 8),
      Lit(4, 8), Lit(5, 8), Lit(6, 8), Lit(7, 8), Lit(8, 8)>>

\* perlin.get([sample_x, sample_y]) for Perlin::new(s).
PerlinGet(s, sample_x, sample_y) ==
    Eighths[((s * 5 + Bits(sample_x) * 3 + Bits(sample_y) * 11) % 17) + 1]

---------------------------------------------------------------------------
(* regenerate_terrain *)

\* One iteration of the octave loop: where it samples, the amplitude it
\* applies and the sample perlin.get returns there.
Octave(s, sample_x, sample_y, amplitude) ==
    [sample_x |-> sample_x, sample_y |-> sample_y, amplitude |-> amplitude,
     sample |-> PerlinGet(s, sample_x, sample_y)]

\* Variant of OctaveLoop: the amplitude is multiplied by the persistence
\* before the sample is added, not after.
RECURSIVE OctaveLoopEarlyDecay(_, _, _, _, _, _, _)
OctaveLoopEarlyDecay(s, c, nx, ny, k, amplitude, frequency) ==
    IF k >= c.octaves THEN <<>>
    ELSE <<Octave(s, FMul(FMul(nx, frequency), c.scale),
                     FMul(FMul(ny, frequency), c.scale),
                     FMul(amplitude, c.persistence))>>
         \o OctaveLoopEarlyDecay(s, c, nx, ny, k + 1,
                                 FMul(amplitude, c.persistence),
                                 FMul(frequency, c.lacunarity))

\* The iterations k, k+1, .. of `for _ in 0..octaves`, entered with the given
\* amplitude and frequency.
RECURSIVE OctaveLoop(_, _, _, _, _, _, _)
OctaveLoop(s, c, nx, ny, k, amplitude, frequency) ==
    IF k >= c.octaves THEN <<>>
    ELSE <<Octave(s, FMul(FMul(nx, frequency), c.scale),
                     FMul(FMul(ny, frequency), c.scale), amplitude)>>
         \o OctaveLoop(s, c, nx, ny, k + 1,
                       FMul(amplitude, c.persistence),
                       FMul(frequency, c.lacunarity))

\* noise_value after the first n iterations: 0.0, then += sample * amplitude.
RECURSIVE NoiseValue(_, _)
NoiseValue(iterations, n) ==    IF n = 0 THEN Zero
    ELSE FAdd(NoiseValue(iterations, n - 1),
              FMul(iterations[n].sample, iterations[n].amplitude))

\* noise_value when the loop ends.
NoiseSum(iterations) == NoiseValue(iterations, Len(iterations))

\* noise_value = (noise_value + 1.0) / 2.0
Normalize(noise_value) == FDiv(FAdd(noise_value, One), Two)

\* The height the closure passes to get_terrain_color for pixel (x, y).
PixelHeight(s, c, x, y) ==
    LET nx == FSub(FDiv(FromInt(x), FromInt(c.width)), Half)
        ny == FSub(FDiv(FromInt(y), FromInt(c.height)), Half)
    IN  Normalize(NoiseSum(OctaveLoop(s, c, nx, ny, 0, One, One)))

\* Variant of PixelColor: the band colour quantised with the configured
\* pixel size.
PixelColorByPixelSize(s, c, x, y) ==
    quantize_color(BandColor(TerrainBand(PixelHeight(s, c, x, y))),
                   c.pixel_size).value

\* The closure of the inner map: the colour of pixel (x, y).
PixelColor(s, c, x, y) == get_terrain_color(PixelHeight(s, c, x, y))

\* Variant of RowPixels: the inclusive range 0..=width.
RowPixelsInclusive(s, c, y) ==
    [i \in 1 .. c.width + 1 |->
        IF c.width = 0 THEN from_rgb(255, 255, 255)
        ELSE PixelColor(s, c, i - 1, y)]

\* (0..width).map(..) for row y.
RowPixels(s, c, y) == [i \in 1 .. c.width |-> PixelColor(s, c, i - 1, y)]

\* (0..height).flat_map(..).collect(), rows y, y+1, ..
RECURSIVE FlatMapRows(_, _, _)
FlatMapRows(s, c, y) ==
    IF y >= c.height THEN <<>>
    ELSE RowPixels(s, c, y) \o FlatMapRows(s, c, y + 1)

\* pixels.iter().flat_map(|c| c.to_array()).collect::<Vec<u8>>()
ToBytes(pixels) ==
    [j \in 1 .. 4 * Len(pixels) |-> pixels[((j - 1) \div 4) + 1][((j - 1) % 4) + 1]]

\* ColorImage::from_rgba_unmultiplied(size, rgba): asserts
\* size[0] * size[1] * 4 == rgba.len(), then reads the bytes four by four.
ColorImageFromRgba(size, rgba) ==
    IF size[1] * size[2] * 4 # Len(rgba)
    THEN [outcome |-> "panic: assertion failed", image |-> <<>>]
    ELSE [outcome |-> "ok",
          image |-> [size |-> size,
                     pixels |-> [i \in 1 .. Len(rgba) \div 4 |->
                         from_rgba_unmultiplied(rgba[4 * i - 3], rgba[4 * i - 2],
                                                rgba[4 * i - 1], rgba[4 * i])]]]

\* regenerate_terrain on an app whose seed is s and whose config is c.
regenerate_terrain(s, c) ==
    ColorImageFromRgba(<<c.width, c.height>>, ToBytes(FlatMapRows(s, c, 0)))

\* ColorImage::new([256, 256], Color32::BLACK), scaled down.
Placeholder ==
    [size |-> <<PlaceholderSide, PlaceholderSide>>,
     pixels |-> [i \in 1 .. PlaceholderSide * PlaceholderSide |-> BLACK]]

\* ctx.load_texture("terrain", self.terrain.clone(), TextureOptions::NEAREST)
load_texture(image) ==
    [name |-> "terrain", image |-> image, options |-> "NEAREST"]

---------------------------------------------------------------------------
(* Fonts *)

\* FontDefinitions::default(): egui's own fonts in both families.
FontDefinitionsDefault ==
    [font_data |-> {},
     families |-> [Proportional |-> <<"egui">>, Monospace |-> <<"egui">>]]

\* What std::fs::read("src/fonts/OldLondon.ttf") returns: Err (None here) or
\* Ok with the bytes of the file.
FontFiles == {None, Some("OldLondon.ttf")}

\* families.get_mut(&family)
get_mut(families, family) ==
    IF family \in DOMAIN families THEN Some(families[family]) ELSE None

\* The font definitions new passes to set_fonts: "my_font" added to the font
\* data, put first in Proportional and last in Monospace.  Each unwrap
\* panics when the family is missing.
add_my_font(defs, font_data) ==
    IF get_mut(defs.families, "Proportional") = None
       \/ get_mut(defs.families, "Monospace") = None
    THEN [outcome |-> "panic: called Option::unwrap() on a None value",
          fonts |-> defs]
    ELSE [outcome |-> "ok",
          fonts |-> [font_data |-> defs.font_data \cup {<<"my_font", font_data>>},
                     families |->
                        [defs.families EXCEPT
                            !.Proportional = <<"my_font">> \o @,
                            !.Monospace = @ \o <<"my_font">>]]]

---------------------------------------------------------------------------
(* The application *)

NoInput == [changed |-> FALSE, clicked |-> FALSE]
NoCall == [fn |-> "none", height |-> Zero, color |-> <<0, 0, 0>>,
           pixel_size |-> 1, outcome |-> "none", value |-> <<>>]

\* On entry to TerrainApp::new: the context has egui's fonts; config, terrain
\* and texture_handle hold what the struct literal will give them, and the
\* seed is not drawn yet.
Init ==
    /\ fonts = FontDefinitionsDefault
    /\ seed = 0
    /\ config = DefaultConfig
    /\ terrain = Placeholder
    /\ texture_handle = None
    /\ pc = "new"
    /\ ui = NoInput
    /\ saved = None
    /\ call = NoCall

\* With r what regenerate_terrain produced: the assignment to self.terrain,
\* then update_texture, which loads a clone of self.terrain.  A panic unwinds
\* and leaves both fields as they were.
Upload(r, done) ==
    IF r.outcome = "ok"
    THEN /\ terrain' = r.image
         /\ texture_handle' = Some(load_texture(terrain'))
         /\ pc' = done
    ELSE /\ UNCHANGED <<terrain, texture_handle>>
         /\ pc' = "panicked"

\* self.regenerate_terrain(); self.update_texture(ctx) with seed s, config c.
RegenerateAndUpload(s, c, done) ==
    \E r \in {regenerate_terrain(s, c)} : Upload(r, done)

\* new, after the font file was read: f is the outcome of adding the font.
Construct(f, rnd) ==
    IF f.outcome = "ok"
    THEN /\ fonts' = f.fonts
         /\ seed' = rnd
         /\ RegenerateAndUpload(rnd, config, "idle")
    ELSE /\ pc' = "panicked"
         /\ UNCHANGED <<fonts, seed, terrain, texture_handle>>

\* TerrainApp::new.  file is what reading the font file returns and rnd what
\* thread_rng().gen() returns.  expect panics with "Failed to read font
\* file" when the file cannot be read, and no app is made.
new(file, rnd) ==
    /\ pc = "new"
    /\ IF file = None
       THEN /\ pc' = "panicked"
            /\ UNCHANGED <<fonts, seed, terrain, texture_handle>>
       ELSE Construct(add_my_font(fonts, file[1]), rnd)
    /\ UNCHANGED <<config, ui, saved, call>>

\* Variant of update: New Seed draws the seed and does not set regenerate.
update_click_without_regenerate(scale, octaves, persistence, lacunarity, pixel_size, clicked, rnd) ==
    LET c == [config EXCEPT !.scale = scale, !.octaves = octaves,
                            !.persistence = persistence,
                            !.lacunarity = lacunarity,
                            !.pixel_size = pixel_size]
        s == IF clicked THEN rnd ELSE seed
    IN  /\ pc = "idle"
        /\ config' = c
        /\ seed' = s
        /\ ui' = [changed |-> c # config, clicked |-> clicked]
        /\ IF c # config
           THEN RegenerateAndUpload(s, c, "idle")
           ELSE UNCHANGED <<terrain, texture_handle, pc>>
        /\ UNCHANGED <<fonts, saved, call>>

\* One frame.  Each slider reports the value it now holds (changed() is true
\* when that differs from the field); clicked says whether New Seed was
\* clicked, and rnd is what thread_rng().gen() returns then.
update(scale, octaves, persistence, lacunarity, pixel_size, clicked, rnd) ==
    LET c == [config EXCEPT !.scale = scale, !.octaves = octaves,
                            !.persistence = persistence,
                            !.lacunarity = lacunarity,
                            !.pixel_size = pixel_size]
        s == IF clicked THEN rnd ELSE seed
        changed == c # config
        regenerate == changed \/ clicked
    IN  /\ pc = "idle"
        /\ config' = c
        /\ seed' = s
        /\ ui' = [changed |-> changed, clicked |-> clicked]
        /\ IF regenerate
           THEN RegenerateAndUpload(s, c, "idle")
           ELSE UNCHANGED <<terrain, texture_handle, pc>>
        /\ UNCHANGED <<fonts, saved, call>>

\* The positions each slider is dragged to: the one new gives it, and others.
Stops ==
    [scale |-> {Lit(30, 1), Lit(50, 1)},
     octaves |-> {1, DefaultOctaves},
     persistence |-> {Lit(5, 10), Lit(8, 10)},
     lacunarity |-> {Lit(2, 1), Lit(27, 10)},
     pixel_size |-> {1, 2}]

\* The values the sliders can report in a frame: each the field's own value,
\* or one of them a new one.  The pointer drives one widget at a time, so at
\* most one slider moves in a frame.
Frames ==
    LET same == [scale |-> config.scale, octaves |-> config.octaves,
                 persistence |-> config.persistence,
                 lacunarity |-> config.lacunarity,
                 pixel_size |-> config.pixel_size]
    IN  {same}
        \cup {[same EXCEPT !.scale = v] : v \in Stops.scale}
        \cup {[same EXCEPT !.octaves = v] : v \in Stops.octaves}
        \cup {[same EXCEPT !.persistence = v] : v \in Stops.persistence}
        \cup {[same EXCEPT !.lacunarity = v] : v \in Stops.lacunarity}
        \cup {[same EXCEPT !.pixel_size = v] : v \in Stops.pixel_size}

\* New Seed in a frame: not clicked, or clicked with what thread_rng().gen()
\* then returns.
Clicks ==
    {[clicked |-> FALSE, rnd |-> seed]}
    \cup {[clicked |-> TRUE, rnd |-> s] : s \in Seeds}

Next ==
    \/ \E file \in FontFiles, rnd \in Seeds : new(file, rnd)
    \/ \E f \in Frames, b \in Clicks :
          update(f.scale, f.octaves, f.persistence, f.lacunarity, f.pixel_size,
                 b.clicked, b.rnd)

Spec == Init /\ [][Next]_vars

---------------------------------------------------------------------------
(* regenerate_terrain called on an app with any seed and any config *)

\* The fonts of a constructed app.
InstalledFonts == add_my_font(FontDefinitionsDefault, "OldLondon.ttf").fonts

\* Before the first call: any seed and any config at pixel size 1.
InitSynth ==
    /\ fonts = InstalledFonts
    /\ seed \in Seeds
    /\ config \in {c \in Configs : c.pixel_size = 1}
    /\ terrain = Placeholder
    /\ texture_handle = None
    /\ pc = "input"
    /\ ui = NoInput
    /\ saved = None
    /\ call = NoCall

\* With r what regenerate_terrain produced: the assignment to self.terrain.
Store(r) ==
    IF r.outcome = "ok"
    THEN terrain' = r.image /\ pc' = "returned"
    ELSE terrain' = terrain /\ pc' = "panicked"

\* The first call; the caller keeps what it was given and what it produced.
Synthesize ==
    /\ pc = "input"
    /\ \E r \in {regenerate_terrain(seed, config)} : Store(r)
    /\ saved' = Some([seed |-> seed, config |-> config, terrain |-> terrain'])
    /\ UNCHANGED <<fonts, seed, config, texture_handle, ui, call>>

\* The caller sets the next seed and calls again.
Reseed ==
    /\ pc = "returned"
    /\ seed' = (seed + 1) % (MaxSeed + 1)
    /\ \E r \in {regenerate_terrain(seed', config)} : Store(r)
    /\ UNCHANGED <<fonts, config, texture_handle, ui, saved, call>>

\* The caller sets the other pixel size and calls again.
SetPixelSize ==
    /\ pc = "returned"
    /\ \E p \in PixelSizes \ {config.pixel_size} :
          config' = [config EXCEPT !.pixel_size = p]
    /\ \E r \in {regenerate_terrain(seed, config')} : Store(r)
    /\ UNCHANGED <<fonts, seed, texture_handle, ui, saved, call>>

NextSynth == Synthesize \/ Reseed \/ SetPixelSize

SpecSynth == InitSynth /\ [][NextSynth]_vars

---------------------------------------------------------------------------
(* get_terrain_color and quantize_color called directly *)

\* Heights in hundredths, from -1.0 to 2.0.
Heights == {Lit(n, 100) : n \in -100 .. 200}

\* Every channel value in every channel, and the colours of the bands.
Colors == {<<v, v, v>> : v \in 0 .. 255} \cup {BandColor(b) : b \in 1 .. 6}

PixelSizeArgs == 0 .. MaxPixelSize

\* An idle app, and the arguments of one call.
InitColor ==
    /\ fonts = InstalledFonts
    /\ seed = 0
    /\ config = DefaultConfig
    /\ terrain = regenerate_terrain(seed, config).image
    /\ texture_handle = Some(load_texture(terrain))
    /\ pc = "input"
    /\ ui = NoInput
    /\ saved = None
    /\ \/ \E h \in Heights :
            call = [NoCall EXCEPT !.fn = "get_terrain_color", !.height = h]
       \/ \E col \in Colors, p \in PixelSizeArgs :
            call = [NoCall EXCEPT !.fn = "quantize_color", !.color = col,
                                  !.pixel_size = p]

call_get_terrain_color ==
    /\ pc = "input"
    /\ call.fn = "get_terrain_color"
    /\ call' = [call EXCEPT !.outcome = "ok",
                            !.value = get_terrain_color(call.height)]
    /\ pc' = "returned"
    /\ UNCHANGED <<fonts, seed, config, terrain, texture_handle, ui, saved>>

\* With r what quantize_color produced.
Return(r) ==
    /\ call' = [call EXCEPT !.outcome = r.outcome, !.value = r.value]
    /\ pc' = IF r.outcome = "ok" THEN "returned" ELSE "panicked"

call_quantize_color ==
    /\ pc = "input"
    /\ call.fn = "quantize_color"
    /\ Return(quantize_color(call.color, call.pixel_size))
    /\ UNCHANGED <<fonts, seed, config, terrain, texture_handle, ui, saved>>

NextColor == call_get_terrain_color \/ call_quantize_color

SpecColor == InitColor /\ [][NextColor]_vars

---------------------------------------------------------------------------
(* Claims *)

\* The pixel of the terrain at column x, row y.
PixelAt(x, y) == terrain.pixels[y * config.width + x + 1]

\* The pixel coordinates of the current config.
Columns == 0 .. config.width - 1
Rows == 0 .. config.height - 1

\* The table of bands: exclusive upper bound, colour.
BandTable ==
    << <<Lit(3, 10), <<0, 0, 255>>>>, <<Lit(4, 10), <<65, 105, 225>>>>,
       <<Lit(5, 10), <<210, 180, 140>>>>, <<Lit(7, 10), <<34, 139, 34>>>>,
       <<Lit(8, 10), <<139, 69, 19>>>> >>
Snow == <<255, 255, 255>>
Palette == {BandTable[i][2] : i \in 1 .. 5} \cup {Snow}

\* The colour of the first band, in ascending order, whose bound exceeds h.
TableColor(h) ==
    LET above == {i \in 1 .. 5 : FLt(h, BandTable[i][1])}
    IN  IF above = {} THEN Snow
        ELSE BandTable[CHOOSE i \in above : \A j \in above : i <= j][2]

\* C1: get_terrain_color(h) returns exactly the table colour of the first
\* band whose exclusive upper bound is strictly greater than h.
C1_TableColor ==
    (pc = "returned" /\ call.fn = "get_terrain_color")
        => call.value = from_rgb(TableColor(call.height)[1],
                                 TableColor(call.height)[2],
                                 TableColor(call.height)[3])

\* C2: every pixel regenerate_terrain produces has alpha 255 and an RGB
\* triple of the six-colour palette.
C2_OpaquePalette ==
    pc = "returned"
        => \A i \in 1 .. Len(terrain.pixels) :
              /\ terrain.pixels[i][4] = 255
              /\ <<terrain.pixels[i][1], terrain.pixels[i][2],
                   terrain.pixels[i][3]>> \in Palette

\* C3: quantize_color(color, 1) returns a colour whose red, green and blue
\* are each 0 or 255, namely round(v / 255) * 255: 255 from 128 on, else 0.
C3_QuantizeOne ==
    (call.fn = "quantize_color" /\ call.pixel_size = 1 /\ pc # "input")
        => /\ pc = "returned"
           /\ \A k \in 1 .. 3 :
                 /\ call.value[k] \in {0, 255}
                 /\ call.value[k] = 255 <=> call.color[k] >= 128

C3_Witness ==
    /\ pc = "returned"
    /\ call.fn = "quantize_color"
    /\ call.pixel_size = 1
    /\ call.color = <<65, 105, 225>>
    /\ call.value = <<0, 0, 255, 255>>

\* C4: the image regenerate_terrain produces has the config's width and
\* height and width * height pixels; with width 0 or height 0 the call
\* completes and the buffer is empty.
C4_Dimensions ==
    /\ pc # "panicked"
    /\ pc = "returned"
         => /\ terrain.size = <<config.width, config.height>>
            /\ Len(terrain.pixels) = config.width * config.height
            /\ (config.width = 0 \/ config.height = 0) => terrain.pixels = <<>>

C4_Witness ==
    /\ pc = "returned"
    /\ config.width = 0
    /\ config.height = MaxDim
    /\ terrain.size = <<0, MaxDim>>
    /\ terrain.pixels = <<>>

\* C5: a quantization factor of zero is rejected as an InvalidConfiguration
\* error before any computation: no division by zero is executed and the
\* previously generated terrain is left unchanged.
C5_ZeroRejected ==
    (call.fn = "quantize_color" /\ call.pixel_size = 0 /\ pc # "input")
        => /\ call.outcome = "InvalidConfiguration"
           /\ pc # "panicked"
           /\ terrain = regenerate_terrain(seed, config).image

\* b^k as the loop builds it: 1.0, then k times `*= b`, each product rounded.
RECURSIVE Pow(_, _)
Pow(b, k) == IF k = 0 THEN One ELSE FMul(Pow(b, k - 1), b)

\* The normalized coordinate of column or row i of n.
Centered(i, n) == FSub(FDiv(FromInt(i), FromInt(n)), Half)

\* The octave loop of pixel (x, y) under the current seed and config.
Octaves(x, y) ==
    OctaveLoop(seed, config, Centered(x, config.width),
               Centered(y, config.height), 0, One, One)

\* The octave loop of pixel (x, y), with the pixel's normalized coordinates.
LoopOf(x, y) ==
    [nx |-> Centered(x, config.width), ny |-> Centered(y, config.height),
     octaves |-> Octaves(x, y)]

\* Iteration k (from 0) samples at (nx * f * scale, ny * f * scale) with
\* amplitude a.
SamplesAt(octave, nx, ny, f, a) ==
    /\ octave.sample_x = FMul(FMul(nx, f), config.scale)
    /\ octave.sample_y = FMul(FMul(ny, f), config.scale)
    /\ octave.amplitude = a

\* Iteration k (from 0) of the loop samples at (nx * lacunarity^k * scale,
\* ny * lacunarity^k * scale) with amplitude persistence^k.
OnSchedule(loop) ==
    /\ Len(loop.octaves) = config.octaves
    /\ \A k \in 0 .. config.octaves - 1 :
          SamplesAt(loop.octaves[k + 1], loop.nx, loop.ny,
                    Pow(config.lacunarity, k), Pow(config.persistence, k))

\* Every later iteration applies a strictly smaller amplitude than every
\* earlier one.
Decaying(octaves) ==
    \A j, k \in 1 .. Len(octaves) :
        j < k => FLt(octaves[k].amplitude, octaves[j].amplitude)

\* The smallest normal f64, 2^-1022.
MinNormal == PowerOfTwo(-1022)

\* No later iteration applies a larger amplitude than an earlier one, and
\* every later one applies a strictly smaller amplitude than every earlier
\* one that is above 2^-1022.
DecayingWhileNormal(octaves) ==
    \A j, k \in 1 .. Len(octaves) :
        j < k => /\ ~FLt(octaves[j].amplitude, octaves[k].amplitude)
                 /\ FLt(MinNormal, octaves[j].amplitude)
                       => FLt(octaves[k].amplitude, octaves[j].amplitude)

\* The claim about one loop, as stated: the schedule, and strict decay
\* whenever persistence < 1 and octaves > 1.
AsStated(loop) ==
    /\ OnSchedule(loop)
    /\ (FLt(config.persistence, One) /\ config.octaves > 1)
          => Decaying(loop.octaves)

\* The claim about one loop, amended: the schedule, and whenever
\* 0 <= persistence < 1 and octaves > 1 the amplitudes never grow and decay
\* strictly while they are above 2^-1022.
AsAmended(loop) ==
    /\ OnSchedule(loop)
    /\ (~FLt(config.persistence, Zero) /\ FLt(config.persistence, One)
        /\ config.octaves > 1)
          => DecayingWhileNormal(loop.octaves)

\* C7 as stated: iteration k samples at (nx * lacunarity^k * scale,
\* ny * lacunarity^k * scale) with amplitude persistence^k, and with
\* persistence < 1 and octaves > 1 every later amplitude is strictly smaller
\* than every earlier one.
C7_DecayBelowOne ==
    pc = "returned" => \A x \in Columns, y \in Rows : AsStated(LoopOf(x, y))

\* C7, amended: the same schedule, the powers being built by repeated f64
\* multiplication, and with 0 <= persistence < 1 and octaves > 1 no later
\* amplitude is larger than an earlier one, and every later one is strictly
\* smaller than every earlier one that is above 2^-1022.
C7_DecayWhileNormal ==
    pc = "returned" => \A x \in Columns, y \in Rows : AsAmended(LoopOf(x, y))

\* Persistence 2^-600 with four octaves or more: amplitudes 1, 2^-600, then
\* 0 and 0 again, since 2^-1200 underflows.
C7_Witness ==
    /\ pc = "returned"
    /\ config.persistence = PowerOfTwo(-600)
    /\ config.octaves >= 4
    /\ config.width = MaxDim
    /\ config.height = MaxDim
    /\ Octaves(0, 0)[2].amplitude = PowerOfTwo(-600)
    /\ Octaves(0, 0)[3].amplitude = Zero
    /\ Octaves(0, 0)[4].amplitude = Zero

\* The normalized height of pixel (x, y): (noise_value + 1) / 2, as it is.
HeightOf(x, y) == FDiv(FAdd(NoiseSum(Octaves(x, y)), One), Two)

\* A height below 0 selects the lowest band and gives its colour, a height
\* above 1 the highest band and its colour.
Funnelled(height, pixel) ==
    /\ FLt(height, Zero)
          => TerrainBand(height) = 1 /\ pixel = <<0, 0, 255, 255>>
    /\ FLt(One, height)
          => TerrainBand(height) = 6 /\ pixel = <<255, 255, 255, 255>>

\* C8: the normalized height is not clamped; a pixel whose normalized height
\* is below 0 is classified into the lowest band (Deep water), one whose
\* normalized height is above 1 into the highest (Snow).
C8_OutOfRange ==
    pc = "returned"
        => \A x \in Columns, y \in Rows : Funnelled(HeightOf(x, y), PixelAt(x, y))

C8_Witness ==
    /\ pc = "returned"
    /\ \E x \in Columns, y \in Rows :
          FLt(HeightOf(x, y), Zero) /\ PixelAt(x, y) = <<0, 0, 255, 255>>
    /\ \E x \in Columns, y \in Rows :
          FLt(One, HeightOf(x, y)) /\ PixelAt(x, y) = <<255, 255, 255, 255>>

\* The current run and the remembered one differ in pixel_size and in
\* nothing else.
OnlyPixelSizeDiffers ==
    /\ saved # None
    /\ saved[1].seed = seed
    /\ saved[1].config.pixel_size # config.pixel_size
    /\ [saved[1].config EXCEPT !.pixel_size = config.pixel_size] = config

\* C9: two configs that differ only in pixel_size produce, for the same
\* seed, identical buffers.
C9_PixelSizeInert ==
    (pc = "returned" /\ OnlyPixelSizeDiffers) => saved[1].terrain = terrain

C9_Witness ==
    /\ pc = "returned"
    /\ OnlyPixelSizeDiffers
    /\ Len(terrain.pixels) = MaxDim * MaxDim
    /\ \E i \in 1 .. Len(terrain.pixels) : terrain.pixels[i] # <<255, 255, 255, 255>>
    /\ saved[1].terrain = terrain

\* The terrain is the synthesis of the current seed and config, the texture
\* is loaded from it, and it is not the placeholder.
Fresh ==
    /\ terrain = regenerate_terrain(seed, config).image
    /\ texture_handle = Some(load_texture(terrain))
    /\ terrain # Placeholder

\* A frame in which no slider changed and New Seed was not clicked.
QuietFrame == pc = "idle" /\ pc' = "idle" /\ ~ui'.changed /\ ~ui'.clicked

\* C10: when new returns and at the end of every update the terrain is
\* fresh; a quiet frame leaves seed, config, terrain and texture unchanged.
C10_NeverStale ==
    /\ [](pc = "idle" => Fresh)
    /\ [][QuietFrame => UNCHANGED <<seed, config, terrain, texture_handle>>]_vars

C10_Witness ==
    /\ pc = "idle"
    /\ ui.clicked
    /\ ~ui.changed
    /\ config # DefaultConfig
    /\ Fresh

=============================================================================
